---- MODULE Spec2Model ----
(***************************************************************************)
(* A model of revio-copy: run discovery and aggregation (pkg/metadata),    *)
(* HiFi file mapping (pkg/fileops) and the process command (cmd).          *)
(*                                                                         *)
(* Go strings are sequences of one-character strings, so that substring    *)
(* search, glob matching, splitting and lexicographic order are computed   *)
(* and not assumed.  A path is a sequence of segments, each segment a      *)
(* string; filepath.Join appends a segment and filepath.Dir drops the last *)
(* one.  Names contain no path separator, and os.Stat either finds a path  *)
(* or reports that it does not exist.                                      *)
(***************************************************************************)
EXTENDS Integers, Sequences, FiniteSets, TLC

VARIABLES
    fsDirs,       \* the directories that exist (paths)
    fsFiles,      \* the regular files that exist (paths)
    cells,        \* the cells of the selected run: [FilePath, BioSamples]
    idCell,       \* index of the cell last given to IdentifyHiFiFiles, 0 = none
    idResult,     \* what that call returned: [mappings, err]
    allResult,    \* what IdentifyAllHiFiFiles returned: [called, mappings, err]
    descriptors,  \* the descriptor files under the root, in walk order: [FilePath, Doc]
    pendingRuns,  \* the pending runs under the root: run name -> RunInfo
    allRuns,      \* what the last GetAllRuns returned: [called, runs, err]
    prevRuns,     \* what the GetAllRuns before it returned
    pc,           \* where the process command is
    runName,      \* the --run flag, empty for interactive selection
    output,       \* whether the --output flag names an output directory
    selectedRun,  \* the run the process command selected
    foundFiles,   \* what FindMetadataFiles returned: [called, files]
    foundPending, \* what FindPendingRuns returned: [called, runs]
    parsed,       \* what ParseMetadataFile returned: [called, err] and info when it succeeds
    findResult,   \* what FindRunsByName returned: [called, run, err]
    dryRun,       \* the --dry-run flag
    copier,       \* the FileCopier and what it did: attempts, directories, subprocesses, files
    report        \* what the process command checked and reported: [rcloneChecked, outcome]

resolveVars == <<fsDirs, fsFiles, cells, idCell, idResult, allResult>>
aggregateVars == <<descriptors, pendingRuns, allRuns, prevRuns>>
processVars == <<pc, runName, output, selectedRun>>
discoverVars == <<foundFiles, foundPending, parsed, findResult>>
copyVars == <<dryRun, copier, report>>
vars == <<resolveVars, aggregateVars, processVars, discoverVars, copyVars>>

----------------------------------------------------------------------------
(* Bounds *)

MaxSamples == 2     \* longest sample list of a cell
MaxCells == 2       \* most cells of a run
MaxDescriptors == 2 \* most descriptor files under the root
MaxBarcodes == 2    \* most barcodes of a declared sample
MaxScanDirs == 2    \* most populated directories of a scanned tree
MaxMappings == 2    \* longest mapping list given to the copier

----------------------------------------------------------------------------
(* Strings *)

\* The characters in use, in byte order.
ByteOrder == <<"*", "+", "-", ".", "0", "1", "2", "3", "4", "5", "6", "7", "8", "9",
               "P", "S", "T", "U", "_", "a", "b", "c", "d", "e", "f", "h", "i", "l", "m", "n",
               "o", "p", "r", "s", "t", "u", "v", "w", "x", "y">>

Ord(c) == CHOOSE i \in 1..Len(ByteOrder) : ByteOrder[i] = c

\* Go's string comparison s < t.
RECURSIVE StrLess(_, _)
StrLess(s, t) ==
    IF t = <<>> THEN FALSE
    ELSE IF s = <<>> THEN TRUE
    ELSE IF Head(s) = Head(t) THEN StrLess(Tail(s), Tail(t))
    ELSE Ord(Head(s)) < Ord(Head(t))

HasPrefix(s, p) == Len(p) <= Len(s) /\ SubSeq(s, 1, Len(p)) = p
HasSuffix(s, p) == Len(p) <= Len(s) /\ SubSeq(s, Len(s) - Len(p) + 1, Len(s)) = p

\* strings.Contains(s, t)
Contains(s, t) == \E i \in 1..(Len(s) - Len(t) + 1) : SubSeq(s, i, i + Len(t) - 1) = t

\* strings.Split(s, sep)[0]: s up to the first occurrence of sep, all of s without one.
SplitFirst(s, sep) ==
    LET hits == {i \in 1..(Len(s) - Len(sep) + 1) : SubSeq(s, i, i + Len(sep) - 1) = sep}
    IN  IF hits = {} THEN s
        ELSE SubSeq(s, 1, (CHOOSE i \in hits : \A j \in hits : i <= j) - 1)

\* filepath.Match for a pattern of literal characters and "*": pattern[i..] matches
\* name[j..].
RECURSIVE MatchFrom(_, _, _, _)
MatchFrom(pattern, i, name, j) ==
    IF i > Len(pattern) THEN j > Len(name)
    ELSE IF pattern[i] = "*"
         THEN \/ MatchFrom(pattern, i + 1, name, j)
              \/ j <= Len(name) /\ MatchFrom(pattern, i, name, j + 1)
    ELSE /\ j <= Len(name)
         /\ name[j] = pattern[i]
         /\ MatchFrom(pattern, i + 1, name, j + 1)

Match(pattern, name) == MatchFrom(pattern, 1, name, 1)

\* The elements of a finite set of strings in ascending order.
RECURSIVE SortStrings(_)
SortStrings(S) ==
    IF S = {} THEN <<>>
    ELSE LET m == CHOOSE x \in S : \A y \in S \ {x} : StrLess(x, y)
         IN  <<m>> \o SortStrings(S \ {m})

Range(f) == {f[x] : x \in DOMAIN f}

RECURSIVE Concat(_)
Concat(ss) == IF ss = <<>> THEN <<>> ELSE Head(ss) \o Concat(Tail(ss))

Star == <<"*">>
DotBam == <<".", "b", "a", "m">>
DotPbi == <<".", "p", "b", "i">>
HifiReadsBam == <<".", "h", "i", "f", "i", "_", "r", "e", "a", "d", "s">> \o DotBam
HifiReads == <<"h", "i", "f", "i", "_", "r", "e", "a", "d", "s">>
MetadataName == <<"m", "e", "t", "a", "d", "a", "t", "a">>
DotMetadataXml == <<".">> \o MetadataName \o <<".", "x", "m", "l">>
DotTxt == <<".", "t", "x", "t">>
TransferTest == <<"T", "r", "a", "n", "s", "f", "e", "r", "_", "T", "e", "s", "t", "_">>
Preview == <<"p", "r", "e", "v", "i", "e", "w">>

\* strings.ToLower, for the upper-case letters in use.
UpperCase == <<"P", "S", "T", "U">>
LowerCase == <<"p", "s", "t", "u">>
ToLower(s) ==
    [i \in 1..Len(s) |->
        IF \E k \in 1..Len(UpperCase) : UpperCase[k] = s[i]
        THEN LowerCase[CHOOSE k \in 1..Len(UpperCase) : UpperCase[k] = s[i]]
        ELSE s[i]]
SamplePrefix == <<"S", "a", "m", "p", "l", "e", "_">>
ModUnmappedBam == <<".", "m", "o", "d", ".", "u", "n", "m", "a", "p", "p", "e", "d">> \o DotBam

----------------------------------------------------------------------------
(* Paths and the file system *)

Dir(path) == SubSeq(path, 1, Len(path) - 1)
Base(path) == path[Len(path)]
Join(dir, name) == Append(dir, name)

\* A path with suffix appended to its last segment (Go: path + suffix).
PathPlus(path, suffix) == Join(Dir(path), Base(path) \o suffix)

\* os.Stat(path) succeeds.
Exists(path) == path \in fsDirs \/ path \in fsFiles

----------------------------------------------------------------------------
(* The names in use *)

RunDir == << <<"r", "u", "n", "1">> >>
OutputDir == << <<"o", "u", "t">> >>
CellNames == << <<"c", "1">>, <<"c", "2">>, <<"c", "9">>, <<"d", "1">>, <<"d", "2">> >>
DescriptorName == <<"m">> \o DotMetadataXml
PreviewName == <<"m", ".", "P", "r", "e", "v", "i", "e", "w">> \o DotMetadataXml
SentinelName == TransferTest \o <<"1">> \o DotTxt

SampleNames == { <<"S", "1">>, <<"S", "2">> }
Barcodes == { <<>>,
              <<"b", "c", "1", "-", "-", "b", "c", "1">>,
              <<"b", "c", "2", "-", "-", "b", "c", "9">>,
              <<"a", "m">> }
SampleInfos == [Name : SampleNames, Barcode : Barcodes]

DashDash == <<"-", "-">>

\* Mutant: the whole barcode pair is used for matching.
BarcodeToken_NoSplit(barcode) == barcode

\* The part of the barcode used for file matching.
BarcodeToken(barcode) == SplitFirst(barcode, DashDash)

\* The glob pattern of one sample of a multiplexed cell.
BamPattern(barcode) == Star \o BarcodeToken(barcode) \o Star \o DotBam

\* The sample lists the parser can produce: every non-empty list.
SampleLists(n) == UNION {[1..m -> SampleInfos] : m \in 1..n}

\* BAM file names: two that match *.hifi_reads.bam and carry a barcode, one that
\* carries a barcode only.
BamNames == { <<"a", ".", "b", "c", "1">> \o HifiReadsBam,
              <<"b", ".", "b", "c", "2">> \o HifiReadsBam,
              <<"c", ".", "b", "c", "1">> \o DotBam }

\* Every name a directory entry can have, and every pattern the program globs for.
EntryNames == BamNames \cup {n \o DotPbi : n \in BamNames}
                       \cup {HifiReads, MetadataName, DescriptorName} \cup Range(CellNames)
                       \cup {PreviewName, SentinelName}
GlobPatterns == {BamPattern(b) : b \in Barcodes} \cup {Star \o HifiReadsBam}
                                                \cup {Star \o DotMetadataXml}

\* Match, tabulated once for each pattern and name (@@ makes TLC build the table).
MatchMemo == [pn \in GlobPatterns \X EntryNames |-> Match(pn[1], pn[2])] @@ <<>>

\* filepath.Glob(filepath.Join(dir, pattern)): the matching entries of dir, sorted.
Glob(dir, pattern) ==
    LET names == {Base(p) : p \in {q \in fsFiles \cup fsDirs :
                                      Len(q) > 0 /\ Dir(q) = dir /\ MatchMemo[<<pattern, Base(q)>>]}}
        sorted == SortStrings(names)
    IN  [i \in 1..Len(sorted) |-> Join(dir, sorted[i])]

----------------------------------------------------------------------------
(* pkg/fileops: the file mapping resolver *)

\* Error values; NoError is Go's nil.
NoError == "nil"
ErrSourceDirMissing == "hifi_reads directory not found"
ErrNoReadFiles == "no HiFi BAM files found"
ErrIndexMissing == "PBI file not found for BAM"
ErrBiosampleNotFound == "biosample not found for metadata file"
ErrNoFilesIdentified == "no valid HiFi files identified"

\* Mutant: the destination directory does not carry the sample name.
NewMapping_SharedDir(bamFile, name, outputDir) ==
    LET destDir == Join(outputDir, SamplePrefix)
    IN  [SourceBAM |-> bamFile,
         SourcePBI |-> PathPlus(bamFile, DotPbi),
         DestBAM   |-> Join(destDir, ModUnmappedBam),
         DestPBI   |-> Join(destDir, ModUnmappedBam \o DotPbi),
         BioSample |-> name]

\* The FileMapping built for a BAM file and a sample name.
NewMapping(bamFile, name, outputDir) ==
    LET destDir == Join(outputDir, SamplePrefix \o name)
    IN  [SourceBAM |-> bamFile,
         SourcePBI |-> PathPlus(bamFile, DotPbi),
         DestBAM   |-> Join(destDir, name \o ModUnmappedBam),
         DestPBI   |-> Join(destDir, name \o ModUnmappedBam \o DotPbi),
         BioSample |-> name]

\* The detection loop: some sample of the list carries a barcode.
Multiplexed(biosamples) == \E i \in 1..Len(biosamples) : biosamples[i].Barcode # <<>>

\* Mutant: the index file is not looked for.
IndexedOnly_NoCheck(bamFiles) == bamFiles

\* The inner loop of the multiplexed branch: the matches that have an index.
IndexedOnly(bamFiles) == SelectSeq(bamFiles, LAMBDA f : Exists(PathPlus(f, DotPbi)))

\* One iteration of the multiplexed branch: the mappings of one sample.
SampleMappings(hifiDir, biosampleInfo, outputDir) ==
    LET bamFiles == IndexedOnly(Glob(hifiDir, BamPattern(biosampleInfo.Barcode)))
    IN  [i \in 1..Len(bamFiles) |-> NewMapping(bamFiles[i], biosampleInfo.Name, outputDir)]

\* The multiplexed branch: the mappings of every sample, in list order.
MultiplexBranch(hifiDir, biosamples, outputDir) ==
    [mappings |-> Concat([i \in 1..Len(biosamples) |->
                             SampleMappings(hifiDir, biosamples[i], outputDir)]),
     err |-> NoError]

\* Mutant: the last match is chosen.
SingleBranch_LastMatch(hifiDir, biosamples, outputDir) ==
    LET bamFiles == Glob(hifiDir, Star \o HifiReadsBam)
        last == Len(bamFiles)
    IN  IF Len(bamFiles) = 0 THEN [mappings |-> <<>>, err |-> ErrNoReadFiles]
        ELSE IF ~Exists(PathPlus(bamFiles[last], DotPbi))
             THEN [mappings |-> <<>>, err |-> ErrIndexMissing]
        ELSE [mappings |-> <<NewMapping(bamFiles[last], biosamples[1].Name, outputDir)>>,
              err |-> NoError]

\* The single-sample branch.
SingleBranch(hifiDir, biosamples, outputDir) ==
    LET bamFiles == Glob(hifiDir, Star \o HifiReadsBam)
    IN  IF Len(bamFiles) = 0 THEN [mappings |-> <<>>, err |-> ErrNoReadFiles]
        ELSE IF ~Exists(PathPlus(bamFiles[1], DotPbi))
             THEN [mappings |-> <<>>, err |-> ErrIndexMissing]
        ELSE [mappings |-> <<NewMapping(bamFiles[1], biosamples[1].Name, outputDir)>>,
              err |-> NoError]

HifiDirOf(metadataPath) == Join(Dir(Dir(metadataPath)), HifiReads)

IdentifyHiFiFiles(metadataPath, biosamples, outputDir) ==
    LET hifiDir == HifiDirOf(metadataPath)
    IN  IF ~Exists(hifiDir) THEN [mappings |-> <<>>, err |-> ErrSourceDirMissing]
        ELSE IF Multiplexed(biosamples)
             THEN MultiplexBranch(hifiDir, biosamples, outputDir)
        ELSE SingleBranch(hifiDir, biosamples, outputDir)

\* Mutant: the first failing cell ends the loop with its error.
RECURSIVE IdentifyLoop_AbortOnError(_, _, _, _, _)
IdentifyLoop_AbortOnError(paths, from, biosamples, outputDir, acc) ==
    IF from > Len(paths) THEN [mappings |-> acc, err |-> NoError]
    ELSE IF paths[from] \notin DOMAIN biosamples
         THEN [mappings |-> <<>>, err |-> ErrBiosampleNotFound]
    ELSE LET r == IdentifyHiFiFiles(paths[from], biosamples[paths[from]], outputDir)
         IN  IF r.err # NoError THEN r
             ELSE IdentifyLoop_AbortOnError(paths, from + 1, biosamples, outputDir,
                                            acc \o r.mappings)

\* The loop of IdentifyAllHiFiFiles over cells[from..]; acc is fileMappings so far.
RECURSIVE IdentifyLoop(_, _, _, _, _)
IdentifyLoop(paths, from, biosamples, outputDir, acc) ==
    IF from > Len(paths) THEN [mappings |-> acc, err |-> NoError]
    ELSE IF paths[from] \notin DOMAIN biosamples
         THEN [mappings |-> <<>>, err |-> ErrBiosampleNotFound]
    ELSE LET r == IdentifyHiFiFiles(paths[from], biosamples[paths[from]], outputDir)
         IN  IdentifyLoop(paths, from + 1, biosamples, outputDir,
                          IF r.err # NoError THEN acc ELSE acc \o r.mappings)

IdentifyAllHiFiFiles(paths, biosamples, outputDir) ==
    LET r == IdentifyLoop(paths, 1, biosamples, outputDir, <<>>)
    IN  IF r.err # NoError THEN r
        ELSE IF Len(r.mappings) = 0
             THEN [mappings |-> <<>>, err |-> ErrNoFilesIdentified]
        ELSE r

\* The arguments the process command builds from the selected run's cells.
MetadataFiles == [i \in 1..Len(cells) |-> cells[i].FilePath]
MetadataFileToBiosample ==
    [p \in {cells[i].FilePath : i \in 1..Len(cells)} |->
        LET last == CHOOSE j \in 1..Len(cells) :
                        /\ cells[j].FilePath = p
                        /\ \A k \in (j + 1)..Len(cells) : cells[k].FilePath # p
        IN  cells[last].BioSamples]

----------------------------------------------------------------------------
(* The inputs of the resolver: a run directory with its cells *)


CellDir(k) == Join(RunDir, CellNames[k])
MetadataPath(k) == Join(Join(CellDir(k), MetadataName), DescriptorName)
HifiDir(k) == Join(CellDir(k), HifiReads)

\* The files of a hifi_reads directory holding the BAM files bams, those of indexed
\* with their index.
HifiFiles(k, bams, indexed) ==
    {Join(HifiDir(k), n) : n \in bams} \cup {Join(HifiDir(k), n \o DotPbi) : n \in indexed}

NoResult == [mappings |-> <<>>, err |-> NoError]
NotCalled == [called |-> FALSE, mappings |-> <<>>, err |-> NoError]

NoRuns == [called |-> FALSE, runs |-> <<>>, err |-> NoError]
NoFiles == [called |-> FALSE, files |-> <<>>]
NoPending == [called |-> FALSE, runs |-> <<>>]
NotParsed == [called |-> FALSE]
NoRun == [Name |-> <<>>, CreatedDate |-> <<>>, StartedDate |-> <<>>, Cells |-> <<>>,
          BioSampleNames |-> {}, Status |-> "none"]
NotSearched == [called |-> FALSE, name |-> <<>>, all |-> [runs |-> <<>>, err |-> NoError],
                run |-> NoRun, err |-> NoError]
NoCopy == [called |-> FALSE, DryRun |-> FALSE, attempts |-> <<>>, completedFiles |-> 0,
           destDirs |-> {}, destFiles |-> <<>>, started |-> <<>>, err |-> NoError]
NoReport == [rcloneChecked |-> FALSE, outcome |-> "none"]

\* The parts of the state a specification leaves alone.
ResolveIdle ==
    /\ fsDirs = {} /\ fsFiles = {} /\ cells = <<>>
    /\ idCell = 0 /\ idResult = NoResult /\ allResult = NotCalled
AggregateIdle ==
    /\ descriptors = <<>> /\ pendingRuns = <<>>
    /\ allRuns = NoRuns /\ prevRuns = NoRuns
ProcessIdle ==
    /\ pc = "idle" /\ runName = <<>> /\ output = FALSE /\ selectedRun = NoRun
DiscoverIdle ==
    /\ foundFiles = NoFiles /\ foundPending = NoPending /\ parsed = NotParsed
    /\ findResult = NotSearched
CopyIdle ==
    /\ dryRun = FALSE /\ copier = NoCopy /\ report = NoReport

\* One cell, with every content of its hifi_reads directory and every sample list.
InitCell ==
    \E hifi \in BOOLEAN, bams \in SUBSET BamNames, samples \in SampleLists(MaxSamples) :
      \E indexed \in SUBSET bams :
        /\ hifi = FALSE => bams = {}
        /\ fsDirs = {RunDir, CellDir(1), Join(CellDir(1), MetadataName)}
                      \cup (IF hifi THEN {HifiDir(1)} ELSE {})
        /\ fsFiles = {MetadataPath(1)} \cup HifiFiles(1, bams, indexed)
        /\ cells = <<[FilePath |-> MetadataPath(1), BioSamples |-> samples]>>
        /\ idCell = 0
        /\ idResult = NoResult
        /\ allResult = NotCalled
        /\ AggregateIdle
        /\ ProcessIdle
        /\ DiscoverIdle
        /\ CopyIdle

\* IdentifyHiFiFiles on cell k of the run.
CallIdentifyHiFiFiles(k) ==
    /\ idCell' = k
    /\ idResult' = IdentifyHiFiFiles(cells[k].FilePath, cells[k].BioSamples, OutputDir)
    /\ UNCHANGED <<fsDirs, fsFiles, cells, allResult, aggregateVars, processVars, discoverVars, copyVars>>

\* IdentifyAllHiFiFiles on the run, as the process command calls it.
CallIdentifyAllHiFiFiles ==
    /\ allResult' = [called |-> TRUE] @@
                    IdentifyAllHiFiFiles(MetadataFiles, MetadataFileToBiosample, OutputDir)
    /\ UNCHANGED <<fsDirs, fsFiles, cells, idCell, idResult, aggregateVars, processVars, discoverVars, copyVars>>

NextResolve ==
    \/ \E k \in 1..Len(cells) : CallIdentifyHiFiFiles(k)
    \/ CallIdentifyAllHiFiFiles

SpecCell == InitCell /\ [][NextResolve]_vars

\* The cells of a run with several cells: the hifi_reads directory present or not, a
\* few directory contents and two sample lists.
RunBams == { <<"a", ".", "b", "c", "1">> \o HifiReadsBam, <<"c", ".", "b", "c", "1">> \o DotBam }
CellKinds ==
    {k \in [hifi : BOOLEAN, bams : SUBSET RunBams, indexed : SUBSET RunBams,
            samples : { <<[Name |-> <<"S", "1">>, Barcode |-> <<>>]>>,
                        <<[Name |-> <<"S", "1">>,
                           Barcode |-> <<"b", "c", "1", "-", "-", "b", "c", "1">>],
                          [Name |-> <<"S", "2">>,
                           Barcode |-> <<"b", "c", "2", "-", "-", "b", "c", "9">>]>> }] :
        /\ k.indexed \subseteq k.bams
        /\ k.hifi = FALSE => k.bams = {}
        /\ Cardinality(k.bams) = 1 => k.bams = k.indexed}

InitRun ==
    \E n \in 1..MaxCells :
      \E kind \in [1..n -> CellKinds] :
        /\ fsDirs = {RunDir} \cup {CellDir(k) : k \in 1..n}
                      \cup {Join(CellDir(k), MetadataName) : k \in 1..n}
                      \cup {HifiDir(k) : k \in {j \in 1..n : kind[j].hifi}}
        /\ fsFiles = {MetadataPath(k) : k \in 1..n}
                       \cup UNION {HifiFiles(k, kind[k].bams, kind[k].indexed) : k \in 1..n}
        /\ cells = [k \in 1..n |-> [FilePath |-> MetadataPath(k),
                                    BioSamples |-> kind[k].samples]]
        /\ idCell = 0
        /\ idResult = NoResult
        /\ allResult = NotCalled
        /\ AggregateIdle
        /\ ProcessIdle
        /\ DiscoverIdle
        /\ CopyIdle

SpecRun == InitRun /\ [][NextResolve]_vars

----------------------------------------------------------------------------
(* pkg/metadata: the descriptor parser *)

RunComplete == "complete"
RunPending == "pending"

ErrDecode == "xml decode error"
ErrRunNameMissing == "run name not found in metadata"
ErrNoBiosamples == "no biosamples found in metadata"
ErrNoValidRuns == "no valid runs found"

\* Mutant: a sample with barcodes yields one entry, for its first barcode.
SampleEntries_FirstBarcode(bs) ==
    IF Len(bs.DNABarcodes) > 0
    THEN <<[Name |-> bs.Name, Barcode |-> bs.DNABarcodes[1]]>>
    ELSE <<[Name |-> bs.Name, Barcode |-> <<>>]>>

\* The BioSampleInfo entries of one declared sample: one per barcode, or one with an
\* empty barcode.
SampleEntries(bs) ==
    IF Len(bs.DNABarcodes) > 0
    THEN [k \in 1..Len(bs.DNABarcodes) |-> [Name |-> bs.Name, Barcode |-> bs.DNABarcodes[k]]]
    ELSE <<[Name |-> bs.Name, Barcode |-> <<>>]>>

\* Mutant: a document with an empty run name is accepted.
parseMetadata_NoNameCheck(doc, filePath) ==
    IF ~doc.wellFormed THEN [err |-> ErrDecode]
    ELSE IF Len(doc.BioSamples) = 0 THEN [err |-> ErrNoBiosamples]
    ELSE [err |-> NoError,
          info |-> [RunName        |-> doc.RunName,
                    BioSamples     |-> Concat([k \in 1..Len(doc.BioSamples) |->
                                                  SampleEntries(doc.BioSamples[k])]),
                    FilePath       |-> filePath,
                    CreatedDate    |-> doc.WhenCreated,
                    StartedDate    |-> doc.WhenStarted,
                    IsMultiplex    |-> FALSE,
                    WellSampleName |-> doc.WellSampleName,
                    Status         |-> RunComplete]]

\* A descriptor document is [wellFormed, RunName, WhenCreated, WhenStarted,
\* WellSampleName, BioSamples], BioSamples a sequence of [Name, DNABarcodes].
parseMetadata(doc, filePath) ==
    IF ~doc.wellFormed THEN [err |-> ErrDecode]
    ELSE IF doc.RunName = <<>> THEN [err |-> ErrRunNameMissing]
    ELSE IF Len(doc.BioSamples) = 0 THEN [err |-> ErrNoBiosamples]
    ELSE LET bioSampleInfos == Concat([k \in 1..Len(doc.BioSamples) |->
                                          SampleEntries(doc.BioSamples[k])])
         IN  [err |-> NoError,
              info |-> [RunName        |-> doc.RunName,
                        BioSamples     |-> bioSampleInfos,
                        FilePath       |-> filePath,
                        CreatedDate    |-> doc.WhenCreated,
                        StartedDate    |-> doc.WhenStarted,
                        IsMultiplex    |-> Len(bioSampleInfos) > 1
                                             /\ bioSampleInfos[1].Barcode # <<>>,
                        WellSampleName |-> doc.WellSampleName,
                        Status         |-> RunComplete]]

\* A descriptor file is [FilePath, Doc].
ParseMetadataFile(file) == parseMetadata(file.Doc, file.FilePath)

\* The inputs of the parser: a document that does not decode, and every document with
\* or without a run name and with up to MaxSamples declared samples, each with up to
\* MaxBarcodes barcodes, a barcode with or without a name.
BarcodeNames == { <<>>, <<"b", "c", "1">> }
BarcodeLists == UNION {[1..m -> BarcodeNames] : m \in 0..MaxBarcodes}
DeclaredSamples == [Name : {<<"S", "1">>, <<"S", "2">>}, DNABarcodes : BarcodeLists]
ParseDocs ==
    {[wellFormed |-> FALSE, RunName |-> <<>>, WhenCreated |-> <<>>, WhenStarted |-> <<>>,
      WellSampleName |-> <<>>, BioSamples |-> <<>>]} \cup
    {[wellFormed |-> TRUE, RunName |-> n, WhenCreated |-> <<"c">>, WhenStarted |-> <<"s">>,
      WellSampleName |-> <<"x">>, BioSamples |-> bs] :
        n \in {<<>>, <<"r", "2">>},
        bs \in UNION {[1..m -> DeclaredSamples] : m \in 0..MaxSamples}}
ParsePaths == { << <<"a", ".", "x", "m", "l">> >>, << <<"b", ".", "x", "m", "l">> >> }

InitParse ==
    \E doc \in ParseDocs, path \in ParsePaths :
      /\ descriptors = <<[FilePath |-> path, Doc |-> doc]>>
      /\ pendingRuns = <<>>
      /\ allRuns = NoRuns
      /\ prevRuns = NoRuns
      /\ foundFiles = NoFiles
      /\ foundPending = NoPending
      /\ parsed = NotParsed
      /\ findResult = NotSearched
      /\ CopyIdle
      /\ ResolveIdle
      /\ ProcessIdle

\* ParseMetadataFile on the descriptor file.
CallParseMetadataFile ==
    /\ parsed' = [called |-> TRUE] @@ ParseMetadataFile(descriptors[1])
    /\ UNCHANGED <<resolveVars, aggregateVars, processVars, foundFiles, foundPending, findResult, copyVars>>

NextParse == CallParseMetadataFile

SpecParse == InitParse /\ [][NextParse]_vars

----------------------------------------------------------------------------
(* pkg/metadata: pending runs *)

Digits == <<"0", "1", "2", "3", "4", "5", "6", "7", "8", "9">>
IsDigit(c) == \E d \in 1..Len(Digits) : Digits[d] = c
DigitValue(c) == (CHOOSE d \in 1..Len(Digits) : Digits[d] = c) - 1

RECURSIVE DecimalValue(_)
DecimalValue(s) ==
    IF s = <<>> THEN 0 ELSE DecimalValue(SubSeq(s, 1, Len(s) - 1)) * 10 + DigitValue(s[Len(s)])

\* strconv.Atoi: an optional sign, then one or more decimal digits.
Atoi(s) ==
    LET signed == Len(s) > 0 /\ s[1] \in {"+", "-"}
        digits == IF signed THEN Tail(s) ELSE s
    IN  IF Len(digits) = 0 \/ \E k \in 1..Len(digits) : ~IsDigit(digits[k])
        THEN [ok |-> FALSE, value |-> 0]
        ELSE [ok |-> TRUE,
              value |-> IF signed /\ s[1] = "-" THEN 0 - DecimalValue(digits)
                        ELSE DecimalValue(digits)]

Underscore == <<"_">>

\* The started date inferred from a run name such as r84297_20250922_085610.
InferStartedDate(name) ==
    IF ~Contains(name, Underscore) THEN <<>>
    ELSE LET first == SplitFirst(name, Underscore)
             dateStr == SplitFirst(SubSeq(name, Len(first) + 2, Len(name)), Underscore)
         IN  IF Len(dateStr) # 8 THEN <<>>
             ELSE LET year == Atoi(SubSeq(dateStr, 1, 4))
                      month == Atoi(SubSeq(dateStr, 5, 6))
                      day == Atoi(SubSeq(dateStr, 7, 8))
                  IN  IF /\ year.ok /\ month.ok /\ day.ok
                         /\ year.value > 2000
                         /\ month.value > 0 /\ month.value <= 12
                         /\ day.value > 0 /\ day.value <= 31
                      THEN dateStr
                      ELSE <<>>

\* Mutant: a pending run is recorded as complete.
PendingRunInfo_Complete(name) ==
    [Name           |-> name,
     CreatedDate    |-> <<>>,
     StartedDate    |-> InferStartedDate(name),
     Cells          |-> <<>>,
     BioSampleNames |-> {},
     Status         |-> RunComplete]

\* The record FindPendingRuns makes for a pending run.
PendingRunInfo(name) ==
    [Name           |-> name,
     CreatedDate    |-> <<>>,
     StartedDate    |-> InferStartedDate(name),
     Cells          |-> <<>>,
     BioSampleNames |-> {},
     Status         |-> RunPending]

----------------------------------------------------------------------------
(* pkg/metadata: discovery of descriptor files and pending runs *)

\* path is rootDir or lies under it.
IsUnder(rootDir, path) ==
    Len(path) >= Len(rootDir) /\ SubSeq(path, 1, Len(rootDir)) = rootDir

\* filepath.WalkDir visits p before q: the entries of a directory in name order, a
\* directory before what it holds.
RECURSIVE PathLess(_, _)
PathLess(p, q) ==
    IF q = <<>> THEN FALSE
    ELSE IF p = <<>> THEN TRUE
    ELSE IF Head(p) = Head(q) THEN PathLess(Tail(p), Tail(q))
    ELSE StrLess(Head(p), Head(q))

RECURSIVE SortPaths(_)
SortPaths(S) ==
    IF S = {} THEN <<>>
    ELSE LET m == CHOOSE x \in S : \A y \in S \ {x} : PathLess(x, y)
         IN  <<m>> \o SortPaths(S \ {m})

\* The directories named metadata under rootDir, in walk order.
MetadataDirs(rootDir) ==
    SortPaths({d \in fsDirs : IsUnder(rootDir, d) /\ Base(d) = MetadataName})

IsPreview(f) == Contains(ToLower(Base(f)), Preview)
NotPreview(f) == ~IsPreview(f)

\* Mutant: preview files are returned too.
FindMetadataFiles_WithPreviews(rootDir) ==
    LET dirs == MetadataDirs(rootDir)
    IN  Concat([i \in 1..Len(dirs) |-> Glob(dirs[i], Star \o DotMetadataXml)])

\* FindMetadataFiles: the files *.metadata.xml of every directory named metadata,
\* without the previews.
FindMetadataFiles(rootDir) ==
    LET dirs == MetadataDirs(rootDir)
    IN  Concat([i \in 1..Len(dirs) |->
                  SelectSeq(Glob(dirs[i], Star \o DotMetadataXml), NotPreview)])

\* The sentinel files under rootDir that mark a pending cell.
PendingSentinels(rootDir) ==
    {f \in fsFiles :
       /\ IsUnder(rootDir, f)
       /\ HasPrefix(Base(f), TransferTest)
       /\ HasSuffix(Base(f), DotTxt)
       /\ Base(Dir(f)) = MetadataName
       /\ Len(Glob(Dir(f), Star \o DotMetadataXml)) = 0
       /\ Len(f) - Len(rootDir) >= 3}

\* Mutant: a sentinel counts also next to a descriptor file.
FindPendingRuns_IgnoreDescriptors(rootDir) ==
    LET sentinels == {f \in fsFiles :
                        /\ IsUnder(rootDir, f)
                        /\ HasPrefix(Base(f), TransferTest)
                        /\ HasSuffix(Base(f), DotTxt)
                        /\ Base(Dir(f)) = MetadataName
                        /\ Len(f) - Len(rootDir) >= 3}
    IN  [name \in {f[Len(rootDir) + 1] : f \in sentinels} |-> PendingRunInfo(name)]

\* FindPendingRuns: one record per run name, the first segment of the sentinel's path
\* relative to rootDir.
FindPendingRuns(rootDir) ==
    [name \in {f[Len(rootDir) + 1] : f \in PendingSentinels(rootDir)} |->
        PendingRunInfo(name)]

\* The trees that are scanned: up to MaxScanDirs of these directories exist under the
\* root, each holding any of a descriptor file, a preview descriptor and a sentinel.
RootDir == << <<"r", "o", "o", "t">> >>
ScanRunNames ==
    << <<"r", "1", "_", "2", "0", "2", "5", "0", "9", "2", "2">>,
       <<"r", "2">>,
       <<"r", "_", "2", "0", "2", "5", "+", "1", "+", "1">>,
       <<"r", "_", "2", "0", "2", "5", "1", "3", "0", "1", "_", "x">> >>
ScanDirs ==
    { Join(RootDir, MetadataName),
      Join(Join(RootDir, ScanRunNames[1]), MetadataName),
      Join(Join(Join(RootDir, ScanRunNames[1]), CellNames[1]), MetadataName),
      Join(Join(Join(RootDir, ScanRunNames[1]), CellNames[2]), MetadataName),
      Join(Join(Join(RootDir, ScanRunNames[1]), CellNames[1]), HifiReads) } \cup
    { Join(Join(Join(RootDir, ScanRunNames[k]), CellNames[1]), MetadataName) : k \in 2..4 }
ScanFileNames == {DescriptorName, PreviewName, SentinelName}
Ancestors(path) == {SubSeq(path, 1, k) : k \in 1..Len(path)}

InitScan ==
    \E dirs \in {D \in SUBSET ScanDirs : Cardinality(D) <= MaxScanDirs} :
      \E content \in [dirs -> SUBSET ScanFileNames] :
        /\ fsDirs = {RootDir} \cup UNION {Ancestors(d) : d \in dirs}
        /\ fsFiles = UNION {{Join(d, n) : n \in content[d]} : d \in dirs}
        /\ cells = <<>>
        /\ idCell = 0
        /\ idResult = NoResult
        /\ allResult = NotCalled
        /\ foundFiles = NoFiles
        /\ foundPending = NoPending
        /\ parsed = NotParsed
        /\ findResult = NotSearched
        /\ CopyIdle
        /\ AggregateIdle
        /\ ProcessIdle

CallFindMetadataFiles ==
    /\ foundFiles' = [called |-> TRUE, files |-> FindMetadataFiles(RootDir)]
    /\ UNCHANGED <<resolveVars, aggregateVars, processVars, foundPending, parsed, findResult, copyVars>>

CallFindPendingRuns ==
    /\ foundPending' = [called |-> TRUE, runs |-> FindPendingRuns(RootDir)]
    /\ UNCHANGED <<resolveVars, aggregateVars, processVars, foundFiles, parsed, findResult, copyVars>>

NextScan == CallFindMetadataFiles \/ CallFindPendingRuns

SpecScan == InitScan /\ [][NextScan]_vars

----------------------------------------------------------------------------
(* pkg/metadata: the run aggregator *)

\* The RunInfo created for the first cell seen of a run.
NewRunInfo(info) ==
    [Name           |-> info.RunName,
     CreatedDate    |-> info.CreatedDate,
     StartedDate    |-> info.StartedDate,
     Cells          |-> <<>>,
     BioSampleNames |-> {},
     Status         |-> RunComplete]

\* RunInfo.BioSampleCount
BioSampleCount(r) == Cardinality(r.BioSampleNames)

\* Mutant: the sample names of a run are those of its first cell only.
AddCell_FirstCellNames(runsMap, info) ==
    IF info.RunName \in DOMAIN runsMap
    THEN [runsMap EXCEPT ![info.RunName].Cells = Append(@, info)]
    ELSE [n \in DOMAIN runsMap \cup {info.RunName} |->
            IF n = info.RunName
            THEN [NewRunInfo(info) EXCEPT
                    !.Cells = <<info>>,
                    !.BioSampleNames = {info.BioSamples[k].Name : k \in 1..Len(info.BioSamples)}]
            ELSE runsMap[n]]

\* runsMap with the parsed cell info added to its run.
AddCell(runsMap, info) ==
    LET runInfo == IF info.RunName \in DOMAIN runsMap THEN runsMap[info.RunName]
                   ELSE NewRunInfo(info)
        updated == [runInfo EXCEPT
                      !.Cells = Append(@, info),
                      !.BioSampleNames = @ \cup {info.BioSamples[k].Name :
                                                    k \in 1..Len(info.BioSamples)}]
    IN  [n \in DOMAIN runsMap \cup {info.RunName} |->
            IF n = info.RunName THEN updated ELSE runsMap[n]]

\* Mutant: the loop stops at the first descriptor file that does not parse.
RECURSIVE GroupCells_AbortOnError(_, _, _)
GroupCells_AbortOnError(files, i, runsMap) ==
    IF i > Len(files) THEN runsMap
    ELSE LET r == ParseMetadataFile(files[i])
         IN  IF r.err # NoError THEN runsMap
             ELSE GroupCells_AbortOnError(files, i + 1, AddCell(runsMap, r.info))

\* The loop over the descriptor files from index i on.
RECURSIVE GroupCells(_, _, _)
GroupCells(files, i, runsMap) ==
    IF i > Len(files) THEN runsMap
    ELSE LET r == ParseMetadataFile(files[i])
         IN  GroupCells(files, i + 1,
                        IF r.err # NoError THEN runsMap ELSE AddCell(runsMap, r.info))

\* Mutant: a pending run replaces the completed run of its name.
MergePending_Overwrite(runsMap, pending) ==
    [n \in DOMAIN runsMap \cup DOMAIN pending |->
        IF n \in DOMAIN pending THEN pending[n] ELSE runsMap[n]]

\* The pending runs merged in where no run of that name exists.
MergePending(runsMap, pending) ==
    [n \in DOMAIN runsMap \cup DOMAIN pending |->
        IF n \in DOMAIN runsMap THEN runsMap[n] ELSE pending[n]]

\* The comparison of sortRunsByDate: run a goes before run b.
RunLess(a, b) ==
    IF a.StartedDate # <<>> /\ b.StartedDate # <<>>
    THEN StrLess(b.StartedDate, a.StartedDate)
    ELSE StrLess(b.Name, a.Name)

\* sort.Slice on fewer than 13 elements is an insertion sort: the element at j moves
\* left while it goes before its left neighbour.
RECURSIVE MoveLeft(_, _)
MoveLeft(runs, j) ==
    IF j > 1 /\ RunLess(runs[j], runs[j - 1])
    THEN MoveLeft([runs EXCEPT ![j] = runs[j - 1], ![j - 1] = runs[j]], j - 1)
    ELSE runs

RECURSIVE InsertionSort(_, _)
InsertionSort(runs, i) ==
    IF i > Len(runs) THEN runs ELSE InsertionSort(MoveLeft(runs, i), i + 1)

sortRunsByDate(runs) == InsertionSort(runs, 2)

\* The orders in which a range over a map with these keys can visit them.
IterationOrders(keys) ==
    {o \in [1..Cardinality(keys) -> keys] : \A i, j \in DOMAIN o : i # j => o[i] # o[j]}

\* runsMap after the descriptors are grouped and the pending runs merged in.
RunsMap(files, pending) == MergePending(GroupCells(files, 1, <<>>), pending)

\* Mutant: an empty run set is returned as an empty list, without error.
GetAllRuns_EmptyListOk(files, pending, order) ==
    LET runsMap == RunsMap(files, pending)
    IN  [runs |-> sortRunsByDate([i \in 1..Len(order) |-> runsMap[order[i]]]),
         err |-> NoError]

\* GetAllRuns on the descriptor files found and the pending runs found; order is the
\* order in which the range over runsMap visits the run names.
GetAllRuns(files, pending, order) ==
    LET runsMap == RunsMap(files, pending)
    IN  IF Cardinality(DOMAIN runsMap) = 0 THEN [runs |-> <<>>, err |-> ErrNoValidRuns]
        ELSE [runs |-> sortRunsByDate([i \in 1..Len(order) |-> runsMap[order[i]]]),
              err |-> NoError]

----------------------------------------------------------------------------
(* The inputs of the aggregator: descriptors and pending runs under a root *)

Date0922 == <<"2", "0", "2", "5", "0", "9", "2", "2">>
Date1001 == <<"2", "0", "2", "5", "1", "0", "0", "1">>
RunNames == { <<"r", "1", "_">> \o Date0922, <<"r", "2">>, <<"r", "3", "_">> \o Date0922 }
StartDates == { <<>>, Date0922, Date1001 }

Malformed ==
    [wellFormed |-> FALSE, RunName |-> <<>>, WhenCreated |-> <<>>, WhenStarted |-> <<>>,
     WellSampleName |-> <<>>, BioSamples |-> <<>>]

\* A document whose run name is empty, and one that declares no sample.
EmptyName ==
    [wellFormed |-> TRUE, RunName |-> <<>>, WhenCreated |-> Date1001, WhenStarted |-> Date1001,
     WellSampleName |-> <<"x">>,
     BioSamples |-> <<[Name |-> <<"S", "1">>, DNABarcodes |-> <<>>]>>]
NoSamples ==
    [wellFormed |-> TRUE, RunName |-> <<"r", "2">>, WhenCreated |-> Date1001,
     WhenStarted |-> Date1001, WellSampleName |-> <<"x">>, BioSamples |-> <<>>]

\* Two declared samples, the first with two barcodes, the second without one.
TwoSamples ==
    << [Name |-> <<"S", "1">>, DNABarcodes |-> << <<"b", "c", "1">>, <<"b", "c", "2">> >>],
       [Name |-> <<"S", "2">>, DNABarcodes |-> <<>>] >>

\* The descriptor documents: those that do not parse, one sample without barcode for
\* every run name and start date, and two samples for every run name.
Docs ==
    {Malformed, EmptyName, NoSamples} \cup
    {[wellFormed |-> TRUE, RunName |-> n, WhenCreated |-> d, WhenStarted |-> d,
      WellSampleName |-> <<"x">>,
      BioSamples |-> <<[Name |-> <<"S", "1">>, DNABarcodes |-> <<>>]>>] :
        n \in RunNames, d \in StartDates} \cup
    {[wellFormed |-> TRUE, RunName |-> n, WhenCreated |-> Date1001, WhenStarted |-> Date1001,
      WellSampleName |-> <<"x">>, BioSamples |-> TwoSamples] : n \in RunNames}

InitAggregate ==
    \E n \in 0..MaxDescriptors :
      \E doc \in [1..n -> Docs], pending \in SUBSET RunNames :
        /\ descriptors = [k \in 1..n |-> [FilePath |-> MetadataPath(k), Doc |-> doc[k]]]
        /\ pendingRuns = [name \in pending |-> PendingRunInfo(name)]
        /\ allRuns = NoRuns
        /\ prevRuns = NoRuns
        /\ ResolveIdle
        /\ ProcessIdle
        /\ DiscoverIdle
        /\ CopyIdle

\* GetAllRuns on the root; the range over runsMap visits the runs in some order.
CallGetAllRuns ==
    /\ \E order \in IterationOrders(DOMAIN RunsMap(descriptors, pendingRuns)) :
         allRuns' = [called |-> TRUE] @@ GetAllRuns(descriptors, pendingRuns, order)
    /\ prevRuns' = allRuns
    /\ UNCHANGED <<descriptors, pendingRuns, resolveVars, processVars, discoverVars, copyVars>>

NextAggregate == CallGetAllRuns

SpecAggregate == InitAggregate /\ [][NextAggregate]_vars

----------------------------------------------------------------------------
(* pkg/copyfiles: the file copier *)

ErrSourceFile == "source file error"
ErrMkdir == "failed to create destination directory"
ErrRclone == "rclone error"
ErrVerification == "destination verification failed"

\* What can go wrong outside the program while one mapping is copied: nothing, the
\* directory creation, the rclone run for the BAM or the PBI file, or the check of the
\* copied file.
CopyFaults == {"none", "mkdir", "bam", "bamverify", "pbi", "pbiverify"}

\* NewFileCopier
NewFileCopier(dry) ==
    [called |-> FALSE, DryRun |-> dry, attempts |-> <<>>, completedFiles |-> 0,
     destDirs |-> {}, destFiles |-> <<>>, started |-> <<>>, err |-> NoError]

\* Mutant: the copier never simulates.
Simulated_Never(fc) == FALSE

\* The copier simulates the transfers.
Simulated(fc) == fc.DryRun

\* copyFileRclone: [fc, err]; failed says whether the rclone run or the check of the
\* destination file fails.
copyFileRclone(fc, src, dest, runFails, checkFails) ==
    IF src \notin fsFiles /\ src \notin fsDirs THEN [fc |-> fc, err |-> ErrSourceFile]
    ELSE IF Simulated(fc) THEN [fc |-> fc, err |-> NoError]
    ELSE LET run == [fc EXCEPT !.started = Append(@, [src |-> src, dest |-> dest])]
             written == [run EXCEPT !.destFiles = (dest :> src) @@ @]
         IN  IF runFails THEN [fc |-> run, err |-> ErrRclone]
             ELSE IF checkFails THEN [fc |-> written, err |-> ErrVerification]
             ELSE [fc |-> written, err |-> NoError]

\* CopyFileMapping: [fc, err, bam, pbi], bam and pbi telling whether that file was
\* copied.
CopyFileMapping(fc, mapping, fault) ==
    IF ~Simulated(fc) /\ fault = "mkdir"
    THEN [fc |-> fc, err |-> ErrMkdir, bam |-> FALSE, pbi |-> FALSE]
    ELSE LET made == IF Simulated(fc) THEN fc
                     ELSE [fc EXCEPT !.destDirs = @ \cup {Dir(mapping.DestBAM)}]
             bam == copyFileRclone(made, mapping.SourceBAM, mapping.DestBAM,
                                   fault = "bam", fault = "bamverify")
         IN  IF bam.err # NoError
             THEN [fc |-> bam.fc, err |-> bam.err, bam |-> FALSE, pbi |-> FALSE]
             ELSE LET pbi == copyFileRclone(bam.fc, mapping.SourcePBI, mapping.DestPBI,
                                            fault = "pbi", fault = "pbiverify")
                  IN  [fc |-> pbi.fc, err |-> pbi.err, bam |-> TRUE,
                       pbi |-> pbi.err = NoError]

\* Mutant: the loop ends at the first mapping that fails.
RECURSIVE CopyLoop_StopOnError(_, _, _, _)
CopyLoop_StopOnError(fc, mappings, i, faults) ==
    IF i > Len(mappings) THEN fc
    ELSE LET r == CopyFileMapping(fc, mappings[i], faults[i])
             tried == [r.fc EXCEPT !.attempts = Append(@, [index |-> i, err |-> r.err,
                                                           bam |-> r.bam, pbi |-> r.pbi])]
         IN  IF r.err # NoError THEN tried
             ELSE CopyLoop_StopOnError([tried EXCEPT !.completedFiles = @ + 2],
                                       mappings, i + 1, faults)

\* The loop of CopyAllFileMappings from mapping i on.
RECURSIVE CopyLoop(_, _, _, _)
CopyLoop(fc, mappings, i, faults) ==
    IF i > Len(mappings) THEN fc
    ELSE LET r == CopyFileMapping(fc, mappings[i], faults[i])
             tried == [r.fc EXCEPT !.attempts = Append(@, [index |-> i, err |-> r.err,
                                                           bam |-> r.bam, pbi |-> r.pbi])]
         IN  CopyLoop(IF r.err # NoError THEN tried
                      ELSE [tried EXCEPT !.completedFiles = @ + 2],
                      mappings, i + 1, faults)

\* CopyAllFileMappings: the copier afterwards; the error it returns is always nil.
CopyAllFileMappings(fc, mappings, faults) ==
    [CopyLoop(fc, mappings, 1, faults) EXCEPT !.called = TRUE, !.err = NoError]

\* The inputs of the copier: up to MaxMappings mappings of the BAM files of one cell to
\* the samples, with all source files in place or one of them missing.
CopySources == {Join(HifiDir(1), n) : n \in RunBams}
CopyMappings == {NewMapping(b, n, OutputDir) : b \in CopySources, n \in SampleNames}
CopyMissing ==
    {{}} \cup {{b} : b \in CopySources} \cup {{PathPlus(b, DotPbi)} : b \in CopySources}

InitCopy ==
    \E n \in 0..MaxMappings :
      \E mappings \in [1..n -> CopyMappings], missing \in CopyMissing, dry \in BOOLEAN :
        /\ fsDirs = {RunDir, CellDir(1), HifiDir(1)}
        /\ fsFiles = (CopySources \cup {PathPlus(b, DotPbi) : b \in CopySources}) \ missing
        /\ cells = <<>>
        /\ idCell = 0
        /\ idResult = NoResult
        /\ allResult = [called |-> TRUE, mappings |-> mappings, err |-> NoError]
        /\ dryRun = dry
        /\ copier = NoCopy
        /\ report = NoReport
        /\ AggregateIdle
        /\ ProcessIdle
        /\ DiscoverIdle

\* CopyAllFileMappings on the mapping list, with whatever goes wrong outside.
CallCopyAllFileMappings ==
    /\ ~copier.called
    /\ \E faults \in [1..Len(allResult.mappings) -> CopyFaults] :
         copier' = CopyAllFileMappings(NewFileCopier(dryRun), allResult.mappings, faults)
    /\ UNCHANGED <<resolveVars, aggregateVars, processVars, discoverVars, dryRun, report>>

NextCopy == CallCopyAllFileMappings

SpecCopy == InitCopy /\ [][NextCopy]_vars

----------------------------------------------------------------------------
(* cmd: the process command *)

ErrRunNotFound == "run not found"
ErrInvalidSelection == "invalid selection"

\* The index of the first run of the list with this name, 0 without one.
FindRun(runs, name) ==
    IF \E i \in 1..Len(runs) : runs[i].Name = name
    THEN CHOOSE i \in 1..Len(runs) :
            runs[i].Name = name /\ \A j \in 1..(i - 1) : runs[j].Name # name
    ELSE 0

\* The answers of promptForSelection for a list of max runs: a zero-based index, -1
\* for an input error, -2 for quit.
PromptAnswers(max) == {0 - 2, 0 - 1} \cup 0..(max - 1)

\* The descriptors and pending runs of the process command's root: few documents,
\* every cell with an indexed BAM file in its hifi_reads directory.
ProcessDocs ==
    {d \in Docs : \/ ~d.wellFormed
                  \/ d.RunName = <<"r", "1", "_">> \o Date0922 /\ d.WhenStarted = Date0922
                  \/ d.RunName = <<"r", "2">> /\ d.WhenStarted = <<>>}
ProcessPending == { <<"r", "2">>, <<"r", "3", "_">> \o Date0922 }
ProcessBam == <<"a", ".", "b", "c", "1">> \o HifiReadsBam

InitProcess ==
    \E n \in 0..MaxDescriptors :
      \E doc \in [1..n -> ProcessDocs], pending \in SUBSET ProcessPending,
         name \in RunNames \cup {<<>>}, out \in BOOLEAN, dry \in BOOLEAN :
        /\ descriptors = [k \in 1..n |-> [FilePath |-> MetadataPath(k), Doc |-> doc[k]]]
        /\ pendingRuns = [r \in pending |-> PendingRunInfo(r)]
        /\ allRuns = NoRuns
        /\ prevRuns = NoRuns
        /\ fsDirs = {RunDir} \cup {CellDir(k) : k \in 1..n}
                      \cup {Join(CellDir(k), MetadataName) : k \in 1..n}
                      \cup {HifiDir(k) : k \in 1..n}
        /\ fsFiles = {MetadataPath(k) : k \in 1..n}
                       \cup UNION {HifiFiles(k, {ProcessBam}, {ProcessBam}) : k \in 1..n}
        /\ cells = <<>>
        /\ idCell = 0
        /\ idResult = NoResult
        /\ allResult = NotCalled
        /\ pc = "prerun"
        /\ runName = name
        /\ output = out
        /\ selectedRun = NoRun
        /\ DiscoverIdle
        /\ dryRun = dry
        /\ copier = NoCopy
        /\ report = NoReport

\* PreRunE: rclone must be available when files are to be copied for real.
ProcPreRun ==
    /\ pc = "prerun"
    /\ IF output /\ ~dryRun
       THEN \E available \in BOOLEAN :
              /\ report' = [report EXCEPT !.rcloneChecked = TRUE]
              /\ pc' = IF available THEN "start" ELSE "failed"
       ELSE pc' = "start" /\ report' = report
    /\ UNCHANGED <<aggregateVars, resolveVars, runName, output, selectedRun, discoverVars,
                   dryRun, copier>>

\* RunE scans the root: GetAllRuns, and the command fails when that fails.
ProcScan ==
    /\ pc = "start"
    /\ \E order \in IterationOrders(DOMAIN RunsMap(descriptors, pendingRuns)) :
         allRuns' = [called |-> TRUE] @@ GetAllRuns(descriptors, pendingRuns, order)
    /\ prevRuns' = allRuns
    /\ pc' = IF allRuns'.err # NoError \/ Len(allRuns'.runs) = 0 THEN "failed" ELSE "select"
    /\ UNCHANGED <<descriptors, pendingRuns, resolveVars, runName, output, selectedRun, discoverVars, copyVars>>

\* A run named with --run is looked up in the list.
ProcSelectNamed ==
    /\ pc = "select"
    /\ runName # <<>>
    /\ LET i == FindRun(allRuns.runs, runName)
       IN  IF i = 0
           THEN pc' = "failed" /\ selectedRun' = selectedRun
           ELSE pc' = "details" /\ selectedRun' = allRuns.runs[i]
    /\ UNCHANGED <<aggregateVars, resolveVars, runName, output, discoverVars, copyVars>>

\* Without --run the runs are listed and the selection loop starts.
ProcListRuns ==
    /\ pc = "select"
    /\ runName = <<>>
    /\ pc' = "prompt"
    /\ UNCHANGED <<aggregateVars, resolveVars, runName, output, selectedRun, discoverVars, copyVars>>

\* One round of the selection loop, for an answer of promptForSelection.
ProcPrompt(selected) ==
    /\ pc = "prompt"
    /\ IF selected = 0 - 1 THEN pc' = "failed" /\ selectedRun' = selectedRun
       ELSE IF selected = 0 - 2 THEN pc' = "aborted" /\ selectedRun' = selectedRun
       ELSE IF allRuns.runs[selected + 1].Status = RunPending
            THEN pc' = "prompt" /\ selectedRun' = selectedRun
       ELSE pc' = "details" /\ selectedRun' = allRuns.runs[selected + 1]
    /\ UNCHANGED <<aggregateVars, resolveVars, runName, output, discoverVars, copyVars>>

\* The run details are printed; file identification follows when --output is given.
ProcRunDetails ==
    /\ pc = "details"
    /\ pc' = IF output THEN "identify" ELSE "done"
    /\ UNCHANGED <<aggregateVars, resolveVars, runName, output, selectedRun, discoverVars, copyVars>>

\* The files of the selected run's cells are identified.
ProcIdentify ==
    /\ pc = "identify"
    /\ cells' = [k \in 1..Len(selectedRun.Cells) |->
                    [FilePath |-> selectedRun.Cells[k].FilePath,
                     BioSamples |-> selectedRun.Cells[k].BioSamples]]
    /\ allResult' = [called |-> TRUE] @@
                    IdentifyAllHiFiFiles([k \in 1..Len(cells') |-> cells'[k].FilePath],
                                         [p \in {cells'[k].FilePath : k \in 1..Len(cells')} |->
                                             (CHOOSE c \in Range(cells') : c.FilePath = p).BioSamples],
                                         OutputDir)
    /\ pc' = "identified"
    /\ UNCHANGED <<aggregateVars, fsDirs, fsFiles, idCell, idResult, runName, output, selectedRun, discoverVars, copyVars>>

\* Outside the program: a source file of an identified mapping goes away before the
\* report looks at it.
EnvRemoveSource ==
    /\ pc = "identified"
    /\ \E i \in 1..Len(allResult.mappings) :
         \E f \in {allResult.mappings[i].SourceBAM, allResult.mappings[i].SourcePBI} :
           f \in fsFiles /\ fsFiles' = fsFiles \ {f}
    /\ UNCHANGED <<aggregateVars, fsDirs, cells, idCell, idResult, allResult, processVars,
                   discoverVars, copyVars>>

\* The number of source files of the mappings that os.Stat does not find.
InvalidFileCount(mappings) ==
    Cardinality({i \in 1..Len(mappings) : ~Exists(mappings[i].SourceBAM)})
      + Cardinality({i \in 1..Len(mappings) : ~Exists(mappings[i].SourcePBI)})

\* The identification report, and the copying when no source file is missing.
ProcReportAndCopy ==
    /\ pc = "identified"
    /\ IF allResult.err # NoError
       THEN copier' = copier /\ report' = [report EXCEPT !.outcome = "error identifying files"]
       ELSE IF Len(allResult.mappings) > 0 /\ InvalidFileCount(allResult.mappings) = 0
       THEN /\ \E faults \in [1..Len(allResult.mappings) -> CopyFaults] :
                 copier' = CopyAllFileMappings(NewFileCopier(dryRun), allResult.mappings, faults)
            /\ report' = [report EXCEPT !.outcome =
                             IF copier'.err # NoError THEN "error during file copying"
                             ELSE IF dryRun THEN "copy simulation completed"
                             ELSE "all files copied successfully"]
       ELSE /\ copier' = copier
            /\ report' = [report EXCEPT !.outcome =
                             IF InvalidFileCount(allResult.mappings) > 0
                             THEN "missing source files" ELSE "none"]
    /\ pc' = "done"
    /\ UNCHANGED <<aggregateVars, resolveVars, runName, output, selectedRun, discoverVars, dryRun>>

NextProcess ==
    \/ ProcPreRun
    \/ ProcScan
    \/ ProcSelectNamed
    \/ ProcListRuns
    \/ \E selected \in PromptAnswers(Len(allRuns.runs)) : ProcPrompt(selected)
    \/ ProcRunDetails
    \/ ProcIdentify
    \/ EnvRemoveSource
    \/ ProcReportAndCopy

SpecProcess == InitProcess /\ [][NextProcess]_vars

----------------------------------------------------------------------------
(* pkg/metadata: GetAllRuns and FindRunsByName on a root directory *)

ErrWalk == "filesystem traversal error"
ErrNoMetadataForRun == "no metadata files found for run"
ErrSelectedRunPending == "selected run is pending and cannot be processed"

\* FindMetadataFiles with its error: a traversal error gives nil and the error.
FindMetadataFilesResult(rootDir, fault) ==
    IF fault THEN [files |-> <<>>, err |-> ErrWalk]
    ELSE [files |-> FindMetadataFiles(rootDir), err |-> NoError]

\* FindPendingRuns with its error: a traversal error gives nil and the error.
FindPendingRunsResult(rootDir, fault) ==
    IF fault THEN [runs |-> <<>>, err |-> ErrWalk]
    ELSE [runs |-> FindPendingRuns(rootDir), err |-> NoError]

\* The content of the descriptor file at a path, and the files of a list of paths.
DocAt(path) ==
    descriptors[CHOOSE k \in 1..Len(descriptors) : descriptors[k].FilePath = path].Doc
FileRecords(paths) == [i \in 1..Len(paths) |-> [FilePath |-> paths[i], Doc |-> DocAt(paths[i])]]

\* Mutant: a pending run is returned like a complete one.
FindRunsByName_NoPendingCheck(all, name) ==
    IF all.err # NoError THEN [run |-> NoRun, err |-> all.err]
    ELSE LET i == FindRun(all.runs, name)
         IN  IF i = 0 THEN [run |-> NoRun, err |-> ErrNoMetadataForRun]
             ELSE [run |-> all.runs[i], err |-> NoError]

\* FindRunsByName on the result of GetAllRuns.
FindRunsByName(all, name) ==
    IF all.err # NoError THEN [run |-> NoRun, err |-> all.err]
    ELSE LET i == FindRun(all.runs, name)
         IN  IF i = 0 THEN [run |-> NoRun, err |-> ErrNoMetadataForRun]
             ELSE IF all.runs[i].Status = RunPending
             THEN [run |-> NoRun, err |-> ErrSelectedRunPending]
             ELSE [run |-> all.runs[i], err |-> NoError]

\* The roots: up to MaxScanDirs cells in two run directories; a cell is pending (a
\* sentinel, no descriptor) or completed (a sentinel and a descriptor that does not
\* decode or declares one of the two run names).
RootRunDirs == {ScanRunNames[1], ScanRunNames[2]}
RootSlots == {<<r, c>> : r \in RootRunDirs, c \in {CellNames[1], CellNames[2]}}
RootDocs ==
    {Malformed} \cup
    {d \in Docs : /\ d.wellFormed
                  /\ d.RunName \in RootRunDirs
                  /\ d.WhenStarted = Date1001
                  /\ Len(d.BioSamples) = 1}
SlotMetadataDir(s) == Join(Join(Join(RootDir, s[1]), s[2]), MetadataName)

InitRoot ==
    \E used \in {S \in SUBSET RootSlots : Cardinality(S) <= MaxScanDirs} :
      \E pend \in SUBSET used, content \in [used -> RootDocs] :
        LET paths == SortPaths({Join(SlotMetadataDir(s), DescriptorName) : s \in used \ pend})
            slot(q) == CHOOSE s \in used : Join(SlotMetadataDir(s), DescriptorName) = q
        IN  /\ fsDirs = {RootDir} \cup UNION {Ancestors(SlotMetadataDir(s)) : s \in used}
            /\ fsFiles = {Join(SlotMetadataDir(s), SentinelName) : s \in used}
                           \cup {paths[i] : i \in 1..Len(paths)}
            /\ descriptors = [i \in 1..Len(paths) |->
                                [FilePath |-> paths[i], Doc |-> content[slot(paths[i])]]]
            /\ pendingRuns = <<>>
            /\ allRuns = NoRuns
            /\ prevRuns = NoRuns
            /\ cells = <<>>
            /\ idCell = 0
            /\ idResult = NoResult
            /\ allResult = NotCalled
            /\ DiscoverIdle
            /\ ProcessIdle
            /\ CopyIdle

\* GetAllRuns(rootDir): both scans, each of which may hit a traversal error, the
\* grouping, the merge and the sort.
CallGetAllRunsOnRoot ==
    /\ ~allRuns.called
    /\ \E metaFault, pendFault \in BOOLEAN :
         LET m == FindMetadataFilesResult(RootDir, metaFault)
             q == FindPendingRunsResult(RootDir, pendFault)
             files == FileRecords(m.files)
         IN  /\ foundFiles' = [called |-> TRUE] @@ m
             /\ foundPending' = [called |-> TRUE] @@ q
             /\ \E order \in IterationOrders(DOMAIN RunsMap(files, q.runs)) :
                  allRuns' = [called |-> TRUE] @@ GetAllRuns(files, q.runs, order)
    /\ prevRuns' = allRuns
    /\ UNCHANGED <<descriptors, pendingRuns, resolveVars, processVars, parsed, findResult,
                   copyVars>>

\* FindRunsByName(rootDir, runName): GetAllRuns, then the search in its list.
CallFindRunsByName ==
    /\ ~findResult.called
    /\ \E name \in RunNames, metaFault, pendFault \in BOOLEAN :
         LET m == FindMetadataFilesResult(RootDir, metaFault)
             q == FindPendingRunsResult(RootDir, pendFault)
             files == FileRecords(m.files)
         IN  \E order \in IterationOrders(DOMAIN RunsMap(files, q.runs)) :
               LET all == GetAllRuns(files, q.runs, order)
               IN  findResult' = [called |-> TRUE, name |-> name, all |-> all]
                                   @@ FindRunsByName(all, name)
    /\ UNCHANGED <<aggregateVars, resolveVars, processVars, foundFiles, foundPending, parsed,
                   copyVars>>

NextRoot == CallGetAllRunsOnRoot \/ CallFindRunsByName

SpecRoot == InitRoot /\ [][NextRoot]_vars

----------------------------------------------------------------------------
(* Properties of the resolver *)

\* The cell last resolved, its hifi_reads directory and the names of its entries.
LastCell == cells[idCell]
LastHifiDir == Join(Dir(Dir(LastCell.FilePath)), HifiReads)
LastEntries == {Base(p) : p \in {q \in fsFiles : Dir(q) = LastHifiDir}}
LastMappings == idResult.mappings
MappingSet(ms) == {ms[i] : i \in 1..Len(ms)}
Resolved == idCell # 0
ResolvedMultiplexed ==
    /\ Resolved
    /\ LastHifiDir \in fsDirs
    /\ \E i \in 1..Len(LastCell.BioSamples) : LastCell.BioSamples[i].Barcode # <<>>
ResolvedSingle ==
    /\ Resolved
    /\ LastHifiDir \in fsDirs
    /\ \A i \in 1..Len(LastCell.BioSamples) : LastCell.BioSamples[i].Barcode = <<>>

ExpectedDestBAM(name) ==
    OutputDir \o << SamplePrefix \o name, name \o ModUnmappedBam >>
ExpectedDestPBI(name) ==
    OutputDir \o << SamplePrefix \o name, name \o ModUnmappedBam \o DotPbi >>

\* C1: every mapping IdentifyHiFiFiles returns, in either mode, has destination
\* <outputRoot>/Sample_<sampleName>/<sampleName>.mod.unmapped.bam and that path plus
\* ".pbi" for a sample name of the cell, and two mappings with different sample names
\* have different destinations.
C1_DestinationPaths ==
    Resolved =>
      /\ \A m \in MappingSet(LastMappings) :
           /\ \E i \in 1..Len(LastCell.BioSamples) : LastCell.BioSamples[i].Name = m.BioSample
           /\ m.DestBAM = ExpectedDestBAM(m.BioSample)
           /\ m.DestPBI = ExpectedDestPBI(m.BioSample)
      /\ \A m1, m2 \in MappingSet(LastMappings) :
           m1.BioSample # m2.BioSample =>
             /\ m1.DestBAM # m2.DestBAM
             /\ m1.DestPBI # m2.DestPBI

\* C1 witness: a resolved cell with mappings for two different sample names.
C1_Witness ==
    /\ Resolved
    /\ \E m1, m2 \in MappingSet(LastMappings) : m1.BioSample # m2.BioSample

\* The token of sample i of the last cell: its barcode up to the first "--".
TokenOf(i) ==
    LET bc == LastCell.BioSamples[i].Barcode
    IN  IF \E k \in 1..(Len(bc) - 1) : bc[k] = "-" /\ bc[k + 1] = "-"
        THEN SubSeq(bc, 1, (CHOOSE k \in 1..(Len(bc) - 1) :
                               /\ bc[k] = "-" /\ bc[k + 1] = "-"
                               /\ \A j \in 1..(k - 1) : ~(bc[j] = "-" /\ bc[j + 1] = "-")) - 1)
        ELSE bc

Indexed(name) == Join(LastHifiDir, name \o DotPbi) \in fsFiles \cup fsDirs

\* The .bam files whose name contains the token of sample i and whose index exists;
\* with beforeSuffix, the token lies before the final ".bam".
FilesWithToken(i, beforeSuffix) ==
    {f \in LastEntries :
        /\ HasSuffix(f, DotBam)
        /\ Contains(IF beforeSuffix THEN SubSeq(f, 1, Len(f) - Len(DotBam)) ELSE f, TokenOf(i))
        /\ Indexed(f)}

\* The mappings are, sample by sample, one per file of FilesWithToken: for every sample
\* name and file, as many mappings as samples of that name have the file.
OnePerFile(beforeSuffix) ==
    \A name \in SampleNames, f \in LastEntries :
        Cardinality({k \in 1..Len(LastMappings) :
                        /\ LastMappings[k].BioSample = name
                        /\ LastMappings[k].SourceBAM = Join(LastHifiDir, f)})
      = Cardinality({i \in 1..Len(LastCell.BioSamples) :
                        /\ LastCell.BioSamples[i].Name = name
                        /\ f \in FilesWithToken(i, beforeSuffix)})

\* C2 as stated: in a multiplexed cell the mappings of a sample are exactly the .bam
\* files whose name contains the barcode up to the first "--" and whose .pbi exists,
\* one mapping per file, and no error is raised even when nothing matches.
C2_NameContainsToken ==
    ResolvedMultiplexed =>
      /\ idResult.err = NoError
      /\ OnePerFile(FALSE)
      /\ \A m \in MappingSet(LastMappings) : Base(m.SourceBAM) \in LastEntries

\* C2 amended: the same with the token lying in the name before the final ".bam" (the
\* files matching the glob *<token>*.bam).
C2_StemContainsToken ==
    ResolvedMultiplexed =>
      /\ idResult.err = NoError
      /\ OnePerFile(TRUE)
      /\ \A m \in MappingSet(LastMappings) : Base(m.SourceBAM) \in LastEntries

\* C2 witness: a multiplexed cell where one sample matched a file and another sample,
\* with a barcode, matched none.
C2_Witness ==
    /\ ResolvedMultiplexed
    /\ Len(LastMappings) > 0
    /\ \E i \in 1..Len(LastCell.BioSamples) :
         /\ LastCell.BioSamples[i].Barcode # <<>>
         /\ Len(TokenOf(i)) < Len(LastCell.BioSamples[i].Barcode)
         /\ \A m \in MappingSet(LastMappings) : m.BioSample # LastCell.BioSamples[i].Name

\* The files matching *.hifi_reads.bam and the first of them in lexicographic order.
HifiMatches == {f \in LastEntries : HasSuffix(f, HifiReadsBam)}
FirstHifiMatch == CHOOSE f \in HifiMatches : \A g \in HifiMatches \ {f} : StrLess(f, g)

\* The one mapping of a single-sample cell: first match, first sample.
IsFirstMatchMapping ==
    /\ idResult.err = NoError
    /\ Len(LastMappings) = 1
    /\ LastMappings[1].SourceBAM = Join(LastHifiDir, FirstHifiMatch)
    /\ LastMappings[1].BioSample = LastCell.BioSamples[1].Name

\* C3 as stated: a single-sample cell whose hifi_reads exists fails with NoReadFiles
\* when nothing matches *.hifi_reads.bam and otherwise returns exactly one mapping,
\* of the first match in lexicographic order and the first sample.
C3_OneMappingWheneverMatch ==
    ResolvedSingle =>
      /\ HifiMatches = {} => idResult.err = ErrNoReadFiles /\ LastMappings = <<>>
      /\ HifiMatches # {} => IsFirstMatchMapping
      /\ ~(LastMappings = <<>> /\ idResult.err = NoError)
      /\ Len(LastMappings) <= 1

\* C3 amended: the one mapping is returned when the first match has its .pbi index;
\* when it has none the cell fails with an error and no mapping.
C3_OneMappingWhenIndexed ==
    ResolvedSingle =>
      /\ HifiMatches = {} => idResult.err = ErrNoReadFiles /\ LastMappings = <<>>
      /\ HifiMatches # {} /\ Indexed(FirstHifiMatch) => IsFirstMatchMapping
      /\ HifiMatches # {} /\ ~Indexed(FirstHifiMatch) =>
            idResult.err \notin {NoError, ErrNoReadFiles} /\ LastMappings = <<>>
      /\ ~(LastMappings = <<>> /\ idResult.err = NoError)
      /\ Len(LastMappings) <= 1

\* C3 witness: a single-sample cell with several samples and two matching files, both
\* indexed, resolved to one mapping.
C3_Witness ==
    /\ ResolvedSingle
    /\ Len(LastCell.BioSamples) > 1
    /\ LastCell.BioSamples[1].Name # LastCell.BioSamples[2].Name
    /\ Cardinality(HifiMatches) > 1
    /\ \A f \in HifiMatches : Indexed(f)
    /\ Len(LastMappings) = 1

\* The .bam files that match the pattern of some sample of the last cell.
MatchedBams ==
    {f \in LastEntries : \E i \in 1..Len(LastCell.BioSamples) :
        /\ HasSuffix(f, DotBam)
        /\ Contains(SubSeq(f, 1, Len(f) - Len(DotBam)), TokenOf(i))}

\* C4: every mapping has sourceIndexFile = sourceReadFile + ".pbi" and that file
\* exists; a multiplexed cell skips a BAM without index without an error and still maps
\* the indexed ones; a single-sample cell whose chosen BAM has no index fails with an
\* error and no mapping.
C4_IndexRequired ==
    Resolved =>
      /\ \A m \in MappingSet(LastMappings) :
           /\ m.SourcePBI = Join(Dir(m.SourceBAM), Base(m.SourceBAM) \o DotPbi)
           /\ m.SourcePBI \in fsFiles \cup fsDirs
      /\ ResolvedMultiplexed =>
           /\ idResult.err = NoError
           /\ \A f \in MatchedBams :
                Indexed(f) <=> \E m \in MappingSet(LastMappings) :
                                  m.SourceBAM = Join(LastHifiDir, f)
      /\ ResolvedSingle /\ HifiMatches # {} /\ ~Indexed(FirstHifiMatch) =>
           idResult.err # NoError /\ LastMappings = <<>>

\* C4 witness: a multiplexed cell in which a matching BAM without index was skipped and
\* another file was mapped.
C4_Witness ==
    /\ ResolvedMultiplexed
    /\ \E f \in MatchedBams : ~Indexed(f)
    /\ Len(LastMappings) > 0

\* The result of resolving cell k alone.
CellResult(k) == IdentifyHiFiFiles(cells[k].FilePath, cells[k].BioSamples, OutputDir)
RECURSIVE SuccessfulFrom(_)
SuccessfulFrom(k) ==
    IF k > Len(cells) THEN <<>>
    ELSE (IF CellResult(k).err = NoError THEN CellResult(k).mappings ELSE <<>>)
         \o SuccessfulFrom(k + 1)

\* C5: IdentifyAllHiFiFiles skips the cells whose resolution fails (a cell without
\* hifi_reads fails with SourceDirMissing) and returns the other cells' mappings; it
\* fails with NoFilesIdentified exactly when those are empty, so a successful result is
\* never empty.
C5_FailedCellsSkipped ==
    allResult.called =>
      /\ \A k \in 1..Len(cells) :
           HifiDir(k) \notin fsDirs => CellResult(k).err = ErrSourceDirMissing
      /\ SuccessfulFrom(1) = <<>> =>
           allResult.err = ErrNoFilesIdentified /\ allResult.mappings = <<>>
      /\ SuccessfulFrom(1) # <<>> =>
           allResult.err = NoError /\ allResult.mappings = SuccessfulFrom(1)
      /\ allResult.err = NoError => allResult.mappings # <<>>

\* C5 witness: a run whose first cell has no hifi_reads directory and whose later cell
\* was mapped.
C5_Witness ==
    /\ allResult.called
    /\ Len(cells) > 1
    /\ HifiDir(1) \notin fsDirs
    /\ allResult.err = NoError
    /\ Len(allResult.mappings) > 0

----------------------------------------------------------------------------
(* Properties of the aggregator and of the process command *)

ListedRuns == {allRuns.runs[i] : i \in 1..Len(allRuns.runs)}
Listed == allRuns.called /\ allRuns.err = NoError

\* The run names that some descriptor under the root declares and that parse.
CompletedNames ==
    {descriptors[k].Doc.RunName : k \in {j \in 1..Len(descriptors) :
        /\ descriptors[j].Doc.wellFormed
        /\ descriptors[j].Doc.RunName # <<>>
        /\ Len(descriptors[j].Doc.BioSamples) > 0}}

\* C6: in the list GetAllRuns returns no name appears twice; the entry of a name that
\* has a completed run is the completed one, with its cells, also when a pending record
\* has that name; a pending record is listed only when no completed run has its name.
C6_CompletedWins ==
    Listed =>
      /\ \A i, j \in 1..Len(allRuns.runs) :
           i # j => allRuns.runs[i].Name # allRuns.runs[j].Name
      /\ \A r \in ListedRuns :
           /\ r.Name \in CompletedNames =>
                /\ r.Status = RunComplete
                /\ Len(r.Cells) > 0
                /\ \A k \in 1..Len(r.Cells) : r.Cells[k].RunName = r.Name
           /\ r.Status = RunPending =>
                r.Name \in DOMAIN pendingRuns /\ r.Name \notin CompletedNames
      /\ \A n \in CompletedNames \cup DOMAIN pendingRuns : \E r \in ListedRuns : r.Name = n

\* C6 witness: a listed run whose name has both a completed descriptor and a pending
\* record.
C6_Witness ==
    /\ Listed
    /\ \E r \in ListedRuns : r.Name \in CompletedNames /\ r.Name \in DOMAIN pendingRuns

\* C8: the comparison of sortRunsByDate is a strict total order on the runs of a list
\* (pairwise distinct names): irreflexive, transitive, and any two different runs
\* ordered one way.
C8_StrictTotalOrder ==
    Listed =>
      /\ \A a \in ListedRuns : ~RunLess(a, a)
      /\ \A a, b \in ListedRuns : a # b => (RunLess(a, b) \/ RunLess(b, a))
      /\ \A a, b, c \in ListedRuns : RunLess(a, b) /\ RunLess(b, c) => RunLess(a, c)

\* C9: two runs of the returned list with the same non-empty started date stand in
\* name-descending order.
C9_TiesByNameDescending ==
    Listed =>
      \A i, j \in 1..Len(allRuns.runs) :
        /\ i < j
        /\ allRuns.runs[i].StartedDate # <<>>
        /\ allRuns.runs[i].StartedDate = allRuns.runs[j].StartedDate
        => StrLess(allRuns.runs[j].Name, allRuns.runs[i].Name)

\* C10: two calls of GetAllRuns on the same tree return equal lists.
C10_SameListTwice ==
    allRuns.called /\ prevRuns.called => allRuns = prevRuns

\* C7: the process command is at the run details, at file identification or past them
\* only with a selected run that is not pending.
C7_NoPendingRunProcessed ==
    pc \in {"details", "identify", "identified", "done"} => selectedRun.Status # RunPending

\* The sample names that occur in the samples of the cells of a run.
CellSampleNames(r) ==
    UNION {{r.Cells[k].BioSamples[i].Name : i \in 1..Len(r.Cells[k].BioSamples)} :
             k \in 1..Len(r.Cells)}

\* C11: the BioSampleNames of every run GetAllRuns returns is exactly the set of sample
\* names in the samples of its cells, and BioSampleCount is the size of that set.
C11_SampleNamesAreUnion ==
    Listed =>
      \A r \in ListedRuns :
        /\ r.BioSampleNames = CellSampleNames(r)
        /\ BioSampleCount(r) = Cardinality(CellSampleNames(r))

\* C11 witness: a run of two cells that share a sample name, one cell with the same
\* name under two barcodes and a second name.
C11_Witness ==
    /\ Listed
    /\ \E r \in ListedRuns :
         /\ Len(r.Cells) = 2
         /\ Cardinality(r.BioSampleNames) = 2
         /\ \E k \in 1..2 : Len(r.Cells[k].BioSamples) = 3
         /\ \E n \in r.BioSampleNames :
              \A k \in 1..2 : \E i \in 1..Len(r.Cells[k].BioSamples) :
                r.Cells[k].BioSamples[i].Name = n

\* C12: a run GetAllRuns returns is pending exactly when it has no cells; a complete
\* run has a cell, each of its cells carries the run's name and status complete, and it
\* has a sample name.
C12_PendingIffNoCells ==
    Listed =>
      \A r \in ListedRuns :
        /\ r.Status \in {RunComplete, RunPending}
        /\ r.Status = RunPending <=> Len(r.Cells) = 0
        /\ r.Status = RunComplete =>
             /\ Len(r.Cells) >= 1
             /\ \A k \in 1..Len(r.Cells) :
                  r.Cells[k].RunName = r.Name /\ r.Cells[k].Status = RunComplete
             /\ r.BioSampleNames # {}

\* C12 witness: a list with a pending run and a complete run.
C12_Witness ==
    /\ Listed
    /\ \E r \in ListedRuns : r.Status = RunPending /\ Len(r.Cells) = 0
    /\ \E r \in ListedRuns : r.Status = RunComplete /\ Len(r.Cells) = 2

\* The first non-empty string of a sequence, empty without one.
FirstNonEmpty(ss) ==
    IF \E k \in 1..Len(ss) : ss[k] # <<>>
    THEN ss[CHOOSE k \in 1..Len(ss) : ss[k] # <<>> /\ \A j \in 1..(k - 1) : ss[j] = <<>>]
    ELSE <<>>

\* C13: the created and started date of a complete run are those of its first cell, or,
\* where the first cell has none, of the first later cell that has one.
C13_DatesFromFirstCellOrFilled ==
    Listed =>
      \A r \in ListedRuns :
        r.Status = RunComplete =>
          /\ r.StartedDate = FirstNonEmpty([k \in 1..Len(r.Cells) |-> r.Cells[k].StartedDate])
          /\ r.CreatedDate = FirstNonEmpty([k \in 1..Len(r.Cells) |-> r.Cells[k].CreatedDate])

\* The descriptor files that parse, and the paths of those that do not.
Parses(file) == ParseMetadataFile(file).err = NoError
FailingPaths == {descriptors[k].FilePath : k \in {j \in 1..Len(descriptors) : ~Parses(descriptors[j])}}

\* C17: GetAllRuns returns what it returns for the descriptor files that parse alone
\* (with the pending runs), and no cell of a returned run comes from a file that does
\* not parse.
C17_FailingFilesSkipped ==
    allRuns.called =>
      LET runsMap == RunsMap(SelectSeq(descriptors, Parses), pendingRuns)
      IN  /\ allRuns.err = (IF DOMAIN runsMap = {} THEN ErrNoValidRuns ELSE NoError)
          /\ ListedRuns = Range(runsMap)
          /\ Len(allRuns.runs) = Cardinality(DOMAIN runsMap)
          /\ \A r \in ListedRuns : \A k \in 1..Len(r.Cells) :
               r.Cells[k].FilePath \notin FailingPaths

\* C17 witness: a descriptor file that does not parse stands before one that does, and
\* the run of the second is returned.
C17_Witness ==
    /\ Listed
    /\ Len(descriptors) = 2
    /\ ~Parses(descriptors[1])
    /\ Parses(descriptors[2])
    /\ \E r \in ListedRuns : Len(r.Cells) = 1 /\ r.Cells[1].FilePath = descriptors[2].FilePath

----------------------------------------------------------------------------
(* Properties of the descriptor parser *)

ParsedDoc == descriptors[1].Doc
ParsedOk == parsed.called /\ parsed.err = NoError

\* The number of entries a declared sample stands for, and the number of entries that
\* stand before those of declared sample k.
EntryCount(bs) == IF Len(bs.DNABarcodes) > 0 THEN Len(bs.DNABarcodes) ELSE 1
RECURSIVE EntriesBefore(_, _)
EntriesBefore(samples, k) ==
    IF k <= 1 THEN 0 ELSE EntriesBefore(samples, k - 1) + EntryCount(samples[k - 1])

\* C14: a successful parse yields, for the declared samples in document order, one
\* entry per barcode of a sample with barcodes, in barcode order and with the sample's
\* name, and one entry with an empty barcode for a sample without barcode: the sum of
\* max(B(k), 1) entries in all.
C14_EntriesPerBarcode ==
    ParsedOk =>
      LET samples == ParsedDoc.BioSamples
          entries == parsed.info.BioSamples
      IN  /\ Len(entries) = EntriesBefore(samples, Len(samples) + 1)
          /\ \A k \in 1..Len(samples) :
               \A j \in 1..EntryCount(samples[k]) :
                 LET entry == entries[EntriesBefore(samples, k) + j]
                 IN  /\ entry.Name = samples[k].Name
                     /\ entry.Barcode = IF Len(samples[k].DNABarcodes) > 0
                                        THEN samples[k].DNABarcodes[j] ELSE <<>>

\* C14 witness: a parsed document of two samples, one with two barcodes and one
\* without.
C14_Witness ==
    /\ ParsedOk
    /\ Len(ParsedDoc.BioSamples) = 2
    /\ Len(ParsedDoc.BioSamples[1].DNABarcodes) = 2
    /\ Len(ParsedDoc.BioSamples[2].DNABarcodes) = 0
    /\ Len(parsed.info.BioSamples) = 3

\* C15: IsMultiplex of a parsed cell is true exactly when the cell declares more than
\* one sample and some declared sample carries a non-empty barcode.
C15_MultiplexIffManyAndBarcode ==
    ParsedOk =>
      (parsed.info.IsMultiplex <=>
         /\ Len(ParsedDoc.BioSamples) > 1
         /\ \E k \in 1..Len(ParsedDoc.BioSamples) :
              \E j \in 1..Len(ParsedDoc.BioSamples[k].DNABarcodes) :
                ParsedDoc.BioSamples[k].DNABarcodes[j] # <<>>)

\* C16: the parser fails, with no cell metadata, on an empty run name and on a
\* document without samples; when it succeeds the run name and the samples are not
\* empty, the file path is the one passed in and the status is complete.
C16_MissingFieldsFail ==
    parsed.called =>
      /\ (ParsedDoc.RunName = <<>> \/ Len(ParsedDoc.BioSamples) = 0) =>
           parsed.err # NoError /\ "info" \notin DOMAIN parsed
      /\ parsed.err = NoError =>
           /\ "info" \in DOMAIN parsed
           /\ parsed.info.RunName # <<>>
           /\ Len(parsed.info.BioSamples) > 0
           /\ parsed.info.FilePath = descriptors[1].FilePath
           /\ parsed.info.Status = RunComplete

\* C16 witness: a document that decodes, with samples and an empty run name, was
\* rejected.
C16_Witness ==
    /\ parsed.called
    /\ ParsedDoc.wellFormed
    /\ ParsedDoc.RunName = <<>>
    /\ Len(ParsedDoc.BioSamples) > 0
    /\ parsed.err = ErrRunNameMissing

----------------------------------------------------------------------------
(* Properties of discovery *)

\* The letter c in either case.
EitherCase(c) == {c} \cup {UpperCase[k] : k \in {j \in 1..Len(LowerCase) : LowerCase[j] = c}}

\* The name contains the word preview, each letter in either case.
HasPreviewWord(name) ==
    \E i \in 1..(Len(name) - Len(Preview) + 1) :
      \A j \in 1..Len(Preview) : name[i + j - 1] \in EitherCase(Preview[j])

\* The files under the root that lie directly in a directory named metadata and whose
\* name ends in .metadata.xml.
DescriptorCandidates ==
    {f \in fsFiles : /\ IsUnder(RootDir, f)
                     /\ Len(f) >= 2
                     /\ f[Len(f) - 1] = MetadataName
                     /\ HasSuffix(f[Len(f)], DotMetadataXml)}

\* C18: FindMetadataFiles returns exactly the files directly inside a directory named
\* metadata whose name matches *.metadata.xml and does not contain preview in any
\* letter case, each once.
C18_DescriptorsWithoutPreviews ==
    foundFiles.called =>
      /\ Range(foundFiles.files) = {f \in DescriptorCandidates : ~HasPreviewWord(f[Len(f)])}
      /\ \A i, j \in 1..Len(foundFiles.files) :
           i # j => foundFiles.files[i] # foundFiles.files[j]

\* C18 witness: a metadata directory holds a descriptor and a preview, a hifi_reads
\* directory holds a descriptor, and one file is returned.
C18_Witness ==
    /\ foundFiles.called
    /\ Len(foundFiles.files) = 1
    /\ \E f \in DescriptorCandidates :
         /\ HasPreviewWord(f[Len(f)])
         /\ Join(Dir(f), DescriptorName) \in fsFiles
    /\ \E f \in fsFiles : f[Len(f) - 1] = HifiReads /\ f[Len(f)] = DescriptorName

\* The sentinel files Transfer_Test_*.txt under the root that lie directly in a
\* directory named metadata holding no file *.metadata.xml.
Sentinels ==
    {f \in fsFiles : /\ IsUnder(RootDir, f)
                     /\ Len(f) >= 2
                     /\ f[Len(f) - 1] = MetadataName
                     /\ HasPrefix(f[Len(f)], TransferTest)
                     /\ HasSuffix(f[Len(f)], DotTxt)
                     /\ ~\E g \in fsFiles \cup fsDirs :
                           Len(g) = Len(f) /\ Dir(g) = Dir(f)
                           /\ HasSuffix(g[Len(g)], DotMetadataXml)}

\* The records are pending runs without cells under their own name.
PendingRecords ==
    \A name \in DOMAIN foundPending.runs :
      /\ foundPending.runs[name].Name = name
      /\ foundPending.runs[name].Status = RunPending
      /\ foundPending.runs[name].Cells = <<>>

\* C19 as stated: FindPendingRuns reports one pending run, without cells, for the first
\* path segment below the root of every sentinel that lies in a metadata directory
\* without a descriptor file, and no other run.
C19_PendingForEverySentinel ==
    foundPending.called =>
      /\ DOMAIN foundPending.runs = {f[Len(RootDir) + 1] : f \in Sentinels}
      /\ PendingRecords

\* C19 amended: the same for the sentinels whose path relative to the root has at
\* least three segments; a sentinel nearer to the root is not reported.
C19_PendingForDeepSentinels ==
    foundPending.called =>
      /\ DOMAIN foundPending.runs =
           {f[Len(RootDir) + 1] : f \in {g \in Sentinels : Len(g) - Len(RootDir) >= 3}}
      /\ PendingRecords

\* C19 witness: two pending cells of one run, reported as one run.
C19_Witness ==
    /\ foundPending.called
    /\ Cardinality(DOMAIN foundPending.runs) = 1
    /\ \E f, g \in Sentinels :
         f # g /\ Len(f) = 5 /\ Len(g) = 5 /\ f[Len(RootDir) + 1] = g[Len(RootDir) + 1]

\* The string is 8 decimal digits YYYYMMDD with year > 2000, month 1..12, day 1..31.
IsDateToken(token) ==
    /\ Len(token) = 8
    /\ \A k \in 1..8 : IsDigit(token[k])
    /\ DecimalValue(SubSeq(token, 1, 4)) > 2000
    /\ DecimalValue(SubSeq(token, 5, 6)) \in 1..12
    /\ DecimalValue(SubSeq(token, 7, 8)) \in 1..31

\* The token after the first "_" of a name, up to the next "_"; empty without one.
TokenAfterUnderscore(name) ==
    IF \E i \in 1..Len(name) : name[i] = "_"
    THEN LET i == CHOOSE i \in 1..Len(name) : name[i] = "_" /\ \A j \in 1..(i - 1) : name[j] # "_"
             rest == SubSeq(name, i + 1, Len(name))
             ends == {j \in 1..Len(rest) : rest[j] = "_"}
         IN  IF ends = {} THEN rest
             ELSE SubSeq(rest, 1, (CHOOSE j \in ends : \A h \in ends : j <= h) - 1)
    ELSE <<>>

\* C20: the started date of a pending run is the token after the first "_" of its name
\* when that token is a date of 8 decimal digits, and empty otherwise.
C20_StartedDateIsDateToken ==
    foundPending.called =>
      \A name \in DOMAIN foundPending.runs :
        foundPending.runs[name].StartedDate =
          IF IsDateToken(TokenAfterUnderscore(name)) THEN TokenAfterUnderscore(name) ELSE <<>>

----------------------------------------------------------------------------
(* Properties across the packages *)

\* C22: GetAllRuns fails with the error "no valid runs found" exactly when no
\* descriptor parses and no pending run was found, and a list it returns without error
\* is not empty.
C22_NoRunsFoundIffNothing ==
    allRuns.called =>
      /\ allRuns.err \in {NoError, ErrNoValidRuns}
      /\ allRuns.err = ErrNoValidRuns <=>
           (\A k \in 1..Len(descriptors) : ~Parses(descriptors[k])) /\ DOMAIN pendingRuns = {}
      /\ allRuns.err = NoError => Len(allRuns.runs) > 0

\* C22 witness: descriptor files exist, none parses, there is no pending run, and the
\* call failed.
C22_Witness ==
    /\ allRuns.called
    /\ Len(descriptors) = 2
    /\ DOMAIN pendingRuns = {}
    /\ allRuns.err = ErrNoValidRuns

\* C26: the destination paths of the mappings IdentifyAllHiFiFiles returns for a run
\* are pairwise distinct.
C26_DestinationsDistinct ==
    allResult.called =>
      \A i, j \in 1..Len(allResult.mappings) :
        i # j => /\ allResult.mappings[i].DestBAM # allResult.mappings[j].DestBAM
                 /\ allResult.mappings[i].DestPBI # allResult.mappings[j].DestPBI

\* C27: in the mappings of one multiplexed cell no source BAM file stands under two
\* different sample names.
C27_OneSamplePerSource ==
    ResolvedMultiplexed =>
      \A i, j \in 1..Len(LastMappings) :
        LastMappings[i].SourceBAM = LastMappings[j].SourceBAM
          => LastMappings[i].BioSample = LastMappings[j].BioSample

\* C28: for the sample list of a parsed cell the resolver takes the multiplexed branch
\* exactly when the parser set IsMultiplex.
C28_BranchAgreesWithFlag ==
    ParsedOk => (Multiplexed(parsed.info.BioSamples) <=> parsed.info.IsMultiplex)

----------------------------------------------------------------------------
(* Properties of the copier *)

\* C24: CopyAllFileMappings attempts every mapping of the list, in list order, whatever
\* failed before, and the count of completed files is twice the number of mappings
\* whose BAM and PBI were both copied.
C24_EveryMappingAttempted ==
    copier.called =>
      /\ Len(copier.attempts) = Len(allResult.mappings)
      /\ \A i \in 1..Len(copier.attempts) : copier.attempts[i].index = i
      /\ copier.completedFiles =
           2 * Cardinality({i \in 1..Len(copier.attempts) :
                              copier.attempts[i].bam /\ copier.attempts[i].pbi})

\* C24 witness: the first of two mappings failed and the second was copied.
C24_Witness ==
    /\ copier.called
    /\ Len(copier.attempts) = 2
    /\ copier.attempts[1].err # NoError
    /\ copier.attempts[2].bam /\ copier.attempts[2].pbi
    /\ copier.completedFiles = 2

\* C25: with the dry-run flag the copier makes no destination directory, starts no
\* rclone subprocess and writes no destination file, and the availability of rclone is
\* not checked.
C25_DryRunChangesNothing ==
    dryRun =>
      /\ copier.destDirs = {}
      /\ copier.started = <<>>
      /\ copier.destFiles = <<>>
      /\ ~report.rcloneChecked

\* C25 witness: a dry run of the process command went through the copier for a mapping.
C25_Witness ==
    /\ dryRun
    /\ pc = "done"
    /\ copier.called
    /\ Len(copier.attempts) >= 1
    /\ report.outcome = "copy simulation completed"

\* C29: the process command reports that all files were copied only when the BAM and
\* the PBI of every identified mapping were copied, and the copier runs only when every
\* identified source file exists.
C29_SuccessOnlyIfAllCopied ==
    /\ report.outcome = "all files copied successfully" =>
         /\ Len(copier.attempts) = Len(allResult.mappings)
         /\ \A i \in 1..Len(copier.attempts) : copier.attempts[i].bam /\ copier.attempts[i].pbi
    /\ copier.called =>
         \A i \in 1..Len(allResult.mappings) :
           Exists(allResult.mappings[i].SourceBAM) /\ Exists(allResult.mappings[i].SourcePBI)

----------------------------------------------------------------------------
(* Properties of GetAllRuns and FindRunsByName on a root directory *)

\* C21: a scan that hits a traversal error returns the error and no partial result;
\* GetAllRuns fails when the scan for pending runs hit a traversal error; when only the
\* scan for descriptor files failed and pending runs exist, GetAllRuns succeeds and
\* returns the pending runs.
C21_TraversalErrorIsFatal ==
    allRuns.called =>
      /\ foundFiles.err # NoError => foundFiles.files = <<>>
      /\ foundPending.err # NoError => foundPending.runs = <<>>
      /\ foundPending.err # NoError => allRuns.err # NoError
      /\ (foundFiles.err # NoError /\ foundPending.err = NoError
            /\ DOMAIN foundPending.runs # {}) =>
           /\ allRuns.err = NoError
           /\ Range(allRuns.runs) = {foundPending.runs[n] : n \in DOMAIN foundPending.runs}

\* The run named by the last call of FindRunsByName, in the list GetAllRuns gave it.
NamedRuns == {r \in Range(findResult.all.runs) : r.Name = findResult.name}

\* C23: FindRunsByName returns the run of the given name only when the list of
\* GetAllRuns has it with status Complete; it fails with the not-found error when no
\* run of the list has the name, with the pending error when the run of that name is
\* pending, and with the error of GetAllRuns when GetAllRuns failed.
C23_NamedRunCompleteOrError ==
    findResult.called =>
      /\ findResult.all.err # NoError =>
           findResult.err = findResult.all.err /\ findResult.run = NoRun
      /\ findResult.all.err = NoError =>
           /\ NamedRuns = {} => findResult.err = ErrNoMetadataForRun
           /\ (\E r \in NamedRuns : r.Status = RunPending) =>
                findResult.err = ErrSelectedRunPending
           /\ (\E r \in NamedRuns : r.Status = RunComplete) =>
                findResult.err = NoError /\ findResult.run \in NamedRuns
      /\ findResult.err = NoError =>
           /\ findResult.run \in NamedRuns
           /\ findResult.run.Status = RunComplete
      /\ findResult.err # NoError => findResult.run = NoRun

\* C23 witness: FindRunsByName was asked for a run that is pending and refused it.
C23_Witness ==
    /\ findResult.called
    /\ findResult.all.err = NoError
    /\ \E r \in NamedRuns : r.Status = RunPending
    /\ findResult.err = ErrSelectedRunPending

\* The cells of a run directory: completed with a descriptor that parses, and pending.
CompletedCells(r) ==
    {k \in 1..Len(descriptors) :
       /\ IsUnder(Join(RootDir, r), descriptors[k].FilePath)
       /\ ParseMetadataFile(descriptors[k]).err = NoError}
PendingCells(r) == {f \in PendingSentinels(RootDir) : f[Len(RootDir) + 1] = r}

\* The entries of the list that come from a run directory: the pending run named
\* after it and the complete runs with a cell under it.
EntriesOf(r) ==
    {i \in 1..Len(allRuns.runs) :
       \/ allRuns.runs[i].Status = RunPending /\ allRuns.runs[i].Name = r
       \/ \E k \in 1..Len(allRuns.runs[i].Cells) :
            IsUnder(Join(RootDir, r), allRuns.runs[i].Cells[k].FilePath)}

\* C30: a run directory with a completed cell and a pending cell appears exactly once
\* in the list of GetAllRuns, as a Complete run, whatever run name the descriptor
\* declares.
C30_MixedDirectoryListedOnce ==
    (allRuns.called /\ foundFiles.err = NoError /\ foundPending.err = NoError) =>
      \A r \in RootRunDirs :
        (CompletedCells(r) # {} /\ PendingCells(r) # {}) =>
          /\ Cardinality(EntriesOf(r)) = 1
          /\ \A i \in EntriesOf(r) : allRuns.runs[i].Status = RunComplete

====
